---- MODULE Spec2Model ----
(***************************************************************************)
(* bb8-arangodb: the ArangoConnectionManager of src/lib.rs, the connection *)
(* lifecycle adapter between a bb8 pool and the arangors client.           *)
(*                                                                         *)
(* The manager is modelled step by step at its await points.  The pool     *)
(* (which calls connect / is_valid / has_broken and owns the handles) and  *)
(* the arangors client with the server behind it are the environment.      *)
(***************************************************************************)
EXTENDS Integers, Sequences, FiniteSets, TLC

\* ------------------------------------------------------------------ bounds
NumTasks == 2          \* concurrent pool tasks calling into the manager
MaxConns == 2          \* server-scoped connections the server ever opens

Tasks == 1..NumTasks

\* Option::None
None == "None"

\* ------------------------------------------------- construction-time inputs
Urls      == {"http://localhost:8529"}
Usernames == {"root"}
Passwords == {"openSesame", "wrong"}
DbNames   == {"mydb", "nonexistent"}

\* enum AuthenticationMethod { BasicAuth(String, String), JWTAuth(String, String), NoAuth }
AuthenticationMethod ==
    {[kind |-> k, username |-> u, password |-> p] :
        k \in {"BasicAuth", "JWTAuth"}, u \in Usernames, p \in Passwords}
    \cup {[kind |-> "NoAuth", username |-> None, password |-> None]}

\* ------------------------------------------------------ the server (environment)
\* what the server accepts: one account, one database
ServerUsers     == {<<"root", "openSesame">>}
ServerDatabases == {"mydb"}
Collections     == {"c1"}

\* ClientError kinds of the spec's taxonomy; detail is the payload the
\* transport supplies (here: the request that failed), so that two errors of
\* one kind can differ
ErrKinds   == {"TransportFailure", "AuthenticationRejected", "DatabaseNotAccessible"}

Ok(v)  == [tag |-> "Ok", val |-> v, err |-> None]
Err(e) == [tag |-> "Err", val |-> None, err |-> e]
ErrsOf(k, op) == {Err([kind |-> k, detail |-> op])}

VARIABLES
    url, method, database,   \* ArangoConnectionManager fields
    pc,                      \* per task: position in the manager's code
    for_db,                  \* per task: the for_database parameter of establish_*
    connection,              \* per task: local `connection` / borrowed `conn`
    result,                  \* per task: value the running call returned
    calls,                   \* per task: collaborator calls of the running call, in order
    pool,                    \* handles owned by the pool (not lent to the manager)
    validated,               \* connection ids that passed a completed is_valid
    nextId,                  \* next connection id the client hands out
    revoked,                 \* connection ids whose session the server revoked
    initial,                 \* the configuration as constructed (never written)
    lent                     \* per task: the handle as the pool lent it (never written
                             \* by the manager)

vars == <<url, method, database, pc, for_db, connection, result, calls, pool,
          validated, nextId, revoked, initial, lent>>

config == <<url, method, database>>
server == <<revoked>>
ghost  == <<initial, lent>>

\* ------------------------------------------------------------ connection objects
\* GenericConnection<C>: session id, the url and the credentials it attaches
GenericConnection(id, u, kind, user, pass) ==
    [id |-> id, url |-> u, auth |-> kind, username |-> user, password |-> pass]

\* enum ConnectionType { Generic(GenericConnection<C>), Database(Database<C>) }
Generic(c)      == [variant |-> "Generic", conn |-> c, db |-> None]
DatabaseOf(c, d) == [variant |-> "Database", conn |-> c, db |-> d]

\* the principal of a connection is accepted by the server (an anonymous
\* session exists only where the server let the no-auth handshake through)
Accepted(kind, user, pass) ==
    kind = "NoAuth" \/ <<user, pass>> \in ServerUsers

\* a session the server still honours
Healthy(c) ==
    /\ c.id \notin revoked
    /\ Accepted(c.auth, c.username, c.password)

\* connections a revocation can still affect: pooled ones and those between
\* handshake and narrowing (a handle lent to a call is back in the pool before
\* its session is used again)
LiveIds ==
    {h.conn.id : h \in pool}
    \cup {connection[t].id : t \in {u \in Tasks : pc[u] \in
            {"establish_basic_auth_db", "establish_jwt_db", "establish_without_auth_db"}}}

\* one entry of a task's call log: a call into the arangors client and its answer
\* (healthy: whether the server honoured the session when the call was made)
Call(op, u, user, pass, d, id, healthy, resp) ==
    [op |-> op, url |-> u, username |-> user, password |-> pass, db |-> d,
     id |-> id, healthy |-> healthy, resp |-> resp]

\* ------------------------------------------ the arangors client (environment)
\* Every request can fail in transport (network unreachable, reset, ...).
\* GenericConnection::establish_basic_auth / establish_jwt / establish_without_auth:
\* basic auth attaches the credentials to later calls, JWT exchanges them for
\* a token now, no-auth succeeds only if the server permits anonymous access
\* (the server's choice)
EstablishResponses(op, u, user, pass) ==
    ErrsOf("TransportFailure", op)
    \cup
    IF op = "establish_jwt" /\ <<user, pass>> \notin ServerUsers
    THEN ErrsOf("AuthenticationRejected", op)
    ELSE (IF op = "establish_without_auth"
          THEN ErrsOf("AuthenticationRejected", op) ELSE {})
         \cup
         {Ok(GenericConnection(nextId, u,
                CASE op = "establish_basic_auth" -> "BasicAuth"
                  [] op = "establish_jwt" -> "JWTAuth"
                  [] OTHER -> "NoAuth",
                user, pass))}

\* GenericConnection::db: narrow a server-scoped connection to one database
DbResponses(c, d) ==
    ErrsOf("TransportFailure", "db")
    \cup
    IF ~Healthy(c) THEN ErrsOf("AuthenticationRejected", "db")
    ELSE IF d \notin ServerDatabases THEN ErrsOf("DatabaseNotAccessible", "db")
    ELSE {Ok([conn |-> c, name |-> d])}

\* GenericConnection::accessible_databases
AccessibleDatabasesResponses(c) ==
    ErrsOf("TransportFailure", "accessible_databases")
    \cup
    IF ~Healthy(c) THEN ErrsOf("AuthenticationRejected", "accessible_databases")
    ELSE {Ok(S) : S \in SUBSET ServerDatabases}

\* Database::accessible_collections
AccessibleCollectionsResponses(c, d) ==
    ErrsOf("TransportFailure", "accessible_collections")
    \cup
    IF ~Healthy(c) THEN ErrsOf("AuthenticationRejected", "accessible_collections")
    ELSE {Ok(S) : S \in SUBSET Collections}

\* ------------------------------------------------------------------- Init
\* ArangoConnectionManager::new
new(u, m, d) ==
    /\ url = u
    /\ method = m
    /\ database = d

Init ==
    /\ \E u \in Urls, m \in AuthenticationMethod, d \in {None} \cup DbNames : new(u, m, d)
    /\ pc = [t \in Tasks |-> "idle"]
    /\ for_db = [t \in Tasks |-> None]
    /\ connection = [t \in Tasks |-> None]
    /\ result = [t \in Tasks |-> None]
    /\ calls = [t \in Tasks |-> <<>>]
    /\ pool = {}
    /\ validated = {}
    /\ nextId = 1
    /\ revoked = {}
    /\ initial = config
    /\ lent = [t \in Tasks |-> None]

\* ----------------------------------------------------------------- connect
\* the first await of an establish_* function: the handshake, `?` on its
\* error, and the Generic arm when no database was asked for
Handshake(t, op, u, user, pass, for_database, nextPc) ==
    \E resp \in EstablishResponses(op, u, user, pass) :
        /\ calls' = [calls EXCEPT ![t] = <<Call(op, u, user, pass, None, None, None, resp)>>]
        /\ for_db' = [for_db EXCEPT ![t] = for_database]
        /\ IF resp.tag = "Err"
           THEN /\ result' = [result EXCEPT ![t] = Err(resp.err)]
                /\ pc' = [pc EXCEPT ![t] = "connect_done"]
                /\ UNCHANGED <<connection, nextId>>
           ELSE /\ nextId' = nextId + 1
                /\ IF for_database # None
                   THEN /\ connection' = [connection EXCEPT ![t] = resp.val]
                        /\ pc' = [pc EXCEPT ![t] = nextPc]
                        /\ UNCHANGED result
                   ELSE /\ result' = [result EXCEPT ![t] = Ok(Generic(resp.val))]
                        /\ pc' = [pc EXCEPT ![t] = "connect_done"]
                        /\ UNCHANGED connection
        /\ UNCHANGED <<config, validated, server, ghost>>

\* the second await of an establish_* function: connection.db(db), `?` on
\* its error (the local connection is dropped), else the Database arm
\* bug: the narrowed connection is wrapped in the wrong variant
Narrow_WrapsGeneric(t) ==
    \E resp \in DbResponses(connection[t], for_db[t]) :
        /\ calls' = [calls EXCEPT ![t] =
                Append(@, Call("db", connection[t].url, connection[t].username,
                               connection[t].password, for_db[t],
                               connection[t].id, Healthy(connection[t]), resp))]
        /\ IF resp.tag = "Err"
           THEN /\ result' = [result EXCEPT ![t] = Err(resp.err)]
                /\ revoked' = revoked \ {connection[t].id}
           ELSE /\ result' = [result EXCEPT ![t] = Ok(Generic(connection[t]))]
                /\ UNCHANGED revoked
        /\ connection' = [connection EXCEPT ![t] = None]
        /\ pc' = [pc EXCEPT ![t] = "connect_done"]
        /\ UNCHANGED <<config, for_db, validated, nextId, ghost>>

\* bug: a failed narrowing degrades to the server-scoped handle
Narrow_FallsBackToGeneric(t) ==
    \E resp \in DbResponses(connection[t], for_db[t]) :
        /\ calls' = [calls EXCEPT ![t] =
                Append(@, Call("db", connection[t].url, connection[t].username,
                               connection[t].password, for_db[t],
                               connection[t].id, Healthy(connection[t]), resp))]
        /\ IF resp.tag = "Err"
           THEN result' = [result EXCEPT ![t] = Ok(Generic(connection[t]))]
           ELSE result' = [result EXCEPT ![t] =
                        Ok(DatabaseOf(resp.val.conn, resp.val.name))]
        /\ connection' = [connection EXCEPT ![t] = None]
        /\ pc' = [pc EXCEPT ![t] = "connect_done"]
        /\ UNCHANGED <<config, for_db, validated, nextId, server, ghost>>

\* bug: a failed narrowing makes the manager forget its target database
Narrow_ClearsDatabase(t) ==
    \E resp \in DbResponses(connection[t], for_db[t]) :
        /\ calls' = [calls EXCEPT ![t] =
                Append(@, Call("db", connection[t].url, connection[t].username,
                               connection[t].password, for_db[t],
                               connection[t].id, Healthy(connection[t]), resp))]
        /\ IF resp.tag = "Err"
           THEN /\ result' = [result EXCEPT ![t] = Err(resp.err)]
                /\ revoked' = revoked \ {connection[t].id}
                /\ database' = None
           ELSE /\ result' = [result EXCEPT ![t] =
                        Ok(DatabaseOf(resp.val.conn, resp.val.name))]
                /\ UNCHANGED <<revoked, database>>
        /\ connection' = [connection EXCEPT ![t] = None]
        /\ pc' = [pc EXCEPT ![t] = "connect_done"]
        /\ UNCHANGED <<url, method, for_db, validated, nextId, ghost>>

Narrow(t) ==
    \E resp \in DbResponses(connection[t], for_db[t]) :
        /\ calls' = [calls EXCEPT ![t] =
                Append(@, Call("db", connection[t].url, connection[t].username,
                               connection[t].password, for_db[t],
                               connection[t].id, Healthy(connection[t]), resp))]
        /\ IF resp.tag = "Err"
           THEN /\ result' = [result EXCEPT ![t] = Err(resp.err)]
                /\ revoked' = revoked \ {connection[t].id}   \* the session is gone
           ELSE /\ result' = [result EXCEPT ![t] =
                        Ok(DatabaseOf(resp.val.conn, resp.val.name))]
                /\ UNCHANGED revoked
        /\ connection' = [connection EXCEPT ![t] = None]
        /\ pc' = [pc EXCEPT ![t] = "connect_done"]
        /\ UNCHANGED <<config, for_db, validated, nextId, ghost>>

establish_basic_auth(t, u, username, password, for_database) ==
    Handshake(t, "establish_basic_auth", u, username, password, for_database,
              "establish_basic_auth_db")

establish_basic_auth_db(t) ==
    /\ pc[t] = "establish_basic_auth_db"
    /\ UNCHANGED pool
    /\ Narrow(t)

\* bug: the JWT arm runs the basic-auth handshake (copied code)
establish_jwt_UsesBasic(t, u, username, password, for_database) ==
    Handshake(t, "establish_basic_auth", u, username, password, for_database,
              "establish_jwt_db")

establish_jwt(t, u, username, password, for_database) ==
    Handshake(t, "establish_jwt", u, username, password, for_database,
              "establish_jwt_db")

establish_jwt_db(t) ==
    /\ pc[t] = "establish_jwt_db"
    /\ UNCHANGED pool
    /\ Narrow(t)

establish_without_auth(t, u, for_database) ==
    Handshake(t, "establish_without_auth", u, None, None, for_database,
              "establish_without_auth_db")

establish_without_auth_db(t) ==
    /\ pc[t] = "establish_without_auth_db"
    /\ UNCHANGED pool
    /\ Narrow(t)

\* bug: connect() hands out a connection it made earlier instead of a new one
connect_ReusesConnection(t) ==
    /\ pc[t] = "idle"
    /\ nextId <= MaxConns
    /\ IF pool # {}
       THEN /\ \E h \in pool : result' = [result EXCEPT ![t] = Ok(h)]
            /\ calls' = [calls EXCEPT ![t] = <<>>]
            /\ pc' = [pc EXCEPT ![t] = "connect_done"]
            /\ UNCHANGED <<config, for_db, connection, validated, nextId, server, ghost>>
       ELSE \/ /\ method.kind = "BasicAuth"
               /\ establish_basic_auth(t, url, method.username, method.password, database)
            \/ /\ method.kind = "JWTAuth"
               /\ establish_jwt(t, url, method.username, method.password, database)
            \/ /\ method.kind = "NoAuth"
               /\ establish_without_auth(t, url, database)

\* connect(&self): match &self.method, pass url, credentials and database
connect(t) ==
    /\ pc[t] = "idle"
    /\ nextId <= MaxConns
    /\ \/ /\ method.kind = "BasicAuth"
          /\ establish_basic_auth(t, url, method.username, method.password, database)
       \/ /\ method.kind = "JWTAuth"
          /\ establish_jwt(t, url, method.username, method.password, database)
       \/ /\ method.kind = "NoAuth"
          /\ establish_without_auth(t, url, database)

\* ---------------------------------------------------------------- is_valid
\* bug: an empty answer of the probe counts as invalid
is_valid_EmptyIsInvalid(t, h) ==
    /\ LET op == IF h.variant = "Generic" THEN "accessible_databases"
                 ELSE "accessible_collections"
           resps == IF h.variant = "Generic"
                    THEN AccessibleDatabasesResponses(h.conn)
                    ELSE AccessibleCollectionsResponses(h.conn, h.db)
       IN \E resp \in resps :
            /\ calls' = [calls EXCEPT ![t] =
                    <<Call(op, h.conn.url, h.conn.username, h.conn.password,
                           h.db, h.conn.id, Healthy(h.conn), resp)>>]
            /\ result' = [result EXCEPT ![t] =
                    IF resp.tag = "Ok"
                    THEN (IF resp.val = {}
                          THEN Err([kind |-> "DatabaseNotAccessible", detail |-> op])
                          ELSE Ok("unit"))
                    ELSE Err(resp.err)]
    /\ connection' = [connection EXCEPT ![t] = h]
    /\ pc' = [pc EXCEPT ![t] = "is_valid_done"]
    /\ UNCHANGED <<config, for_db, validated, nextId, server, initial>>

\* bug: the probe's error is wrapped in an error of the manager's own
is_valid_WrapsError(t, h) ==
    /\ LET op == IF h.variant = "Generic" THEN "accessible_databases"
                 ELSE "accessible_collections"
           resps == IF h.variant = "Generic"
                    THEN AccessibleDatabasesResponses(h.conn)
                    ELSE AccessibleCollectionsResponses(h.conn, h.db)
       IN \E resp \in resps :
            /\ calls' = [calls EXCEPT ![t] =
                    <<Call(op, h.conn.url, h.conn.username, h.conn.password,
                           h.db, h.conn.id, Healthy(h.conn), resp)>>]
            /\ result' = [result EXCEPT ![t] =
                    IF resp.tag = "Ok" THEN Ok("unit")
                    ELSE Err([kind |-> resp.err.kind, detail |-> "is_valid"])]
    /\ connection' = [connection EXCEPT ![t] = h]
    /\ pc' = [pc EXCEPT ![t] = "is_valid_done"]
    /\ UNCHANGED <<config, for_db, validated, nextId, server, initial>>

\* bug: a handle that passed validation once is not probed again
is_valid_Cached(t, h) ==
    /\ LET op == IF h.variant = "Generic" THEN "accessible_databases"
                 ELSE "accessible_collections"
           resps == IF h.variant = "Generic"
                    THEN AccessibleDatabasesResponses(h.conn)
                    ELSE AccessibleCollectionsResponses(h.conn, h.db)
       IN IF h.conn.id \in validated
          THEN /\ calls' = [calls EXCEPT ![t] = <<>>]
               /\ result' = [result EXCEPT ![t] = Ok("unit")]
          ELSE \E resp \in resps :
                /\ calls' = [calls EXCEPT ![t] =
                        <<Call(op, h.conn.url, h.conn.username, h.conn.password,
                               h.db, h.conn.id, Healthy(h.conn), resp)>>]
                /\ result' = [result EXCEPT ![t] =
                        IF resp.tag = "Ok" THEN Ok("unit") ELSE Err(resp.err)]
    /\ connection' = [connection EXCEPT ![t] = h]
    /\ pc' = [pc EXCEPT ![t] = "is_valid_done"]
    /\ UNCHANGED <<config, for_db, validated, nextId, server, initial>>

\* bug: a failed probe of a Database handle leaves it server-scoped
is_valid_DropsScope(t, h) ==
    /\ LET op == IF h.variant = "Generic" THEN "accessible_databases"
                 ELSE "accessible_collections"
           resps == IF h.variant = "Generic"
                    THEN AccessibleDatabasesResponses(h.conn)
                    ELSE AccessibleCollectionsResponses(h.conn, h.db)
       IN \E resp \in resps :
            /\ calls' = [calls EXCEPT ![t] =
                    <<Call(op, h.conn.url, h.conn.username, h.conn.password,
                           h.db, h.conn.id, Healthy(h.conn), resp)>>]
            /\ result' = [result EXCEPT ![t] =
                    IF resp.tag = "Ok" THEN Ok("unit") ELSE Err(resp.err)]
            /\ connection' = [connection EXCEPT ![t] =
                    IF resp.tag = "Ok" THEN h ELSE Generic(h.conn)]
    /\ pc' = [pc EXCEPT ![t] = "is_valid_done"]
    /\ UNCHANGED <<config, for_db, validated, nextId, server, initial>>

\* is_valid(&self, conn): match on the variant, probe, map Ok(_) to Ok(())
is_valid(t, h) ==
    /\ LET op == IF h.variant = "Generic" THEN "accessible_databases"
                 ELSE "accessible_collections"
           resps == IF h.variant = "Generic"
                    THEN AccessibleDatabasesResponses(h.conn)
                    ELSE AccessibleCollectionsResponses(h.conn, h.db)
       IN \E resp \in resps :
            /\ calls' = [calls EXCEPT ![t] =
                    <<Call(op, h.conn.url, h.conn.username, h.conn.password,
                           h.db, h.conn.id, Healthy(h.conn), resp)>>]
            /\ result' = [result EXCEPT ![t] =
                    IF resp.tag = "Ok" THEN Ok("unit") ELSE Err(resp.err)]
    /\ connection' = [connection EXCEPT ![t] = h]
    /\ pc' = [pc EXCEPT ![t] = "is_valid_done"]
    /\ UNCHANGED <<config, for_db, validated, nextId, server, initial>>

\* bug: has_broken() looks the session up (a sticky broken flag)
has_broken_ChecksSession(t, h) ==
    /\ result' = [result EXCEPT ![t] = (h.conn.id \in revoked)]
    /\ calls' = [calls EXCEPT ![t] = <<>>]
    /\ connection' = [connection EXCEPT ![t] = h]
    /\ pc' = [pc EXCEPT ![t] = "has_broken_done"]
    /\ UNCHANGED <<config, for_db, validated, nextId, server, initial>>

\* has_broken(&self, _conn) -> bool { false }
has_broken(t, h) ==
    /\ result' = [result EXCEPT ![t] = FALSE]
    /\ calls' = [calls EXCEPT ![t] = <<>>]
    /\ connection' = [connection EXCEPT ![t] = h]
    /\ pc' = [pc EXCEPT ![t] = "has_broken_done"]
    /\ UNCHANGED <<config, for_db, validated, nextId, server, initial>>

\* ------------------------------------------------------- the pool (environment)
\* bb8 runs a new call on the first idle task (tasks are interchangeable)
FirstIdle(t) ==
    /\ pc[t] = "idle"
    /\ \A u \in Tasks : u < t => pc[u] # "idle"

\* bb8 asks the manager for a new connection
PoolConnect(t) ==
    /\ FirstIdle(t)
    /\ UNCHANGED pool
    /\ connect(t)

\* bb8 takes what connect() returned: a handle joins the pool, an error does not
PoolAdd(t) ==
    /\ pc[t] = "connect_done"
    /\ pool' = IF result[t].tag = "Ok" THEN pool \cup {result[t].val} ELSE pool
    /\ pc' = [pc EXCEPT ![t] = "idle"]
    /\ for_db' = [for_db EXCEPT ![t] = None]
    /\ result' = [result EXCEPT ![t] = None]
    /\ calls' = [calls EXCEPT ![t] = <<>>]
    /\ UNCHANGED <<config, connection, validated, nextId, server, ghost>>

\* bb8 lends one pooled handle, to one task at a time, to is_valid
PoolIsValid(t, h) ==
    /\ FirstIdle(t)
    /\ h \in pool
    /\ pool' = pool \ {h}
    /\ lent' = [lent EXCEPT ![t] = h]
    /\ is_valid(t, h)

\* bb8 lends one pooled handle, to one task at a time, to has_broken
PoolHasBroken(t, h) ==
    /\ FirstIdle(t)
    /\ h \in pool
    /\ pool' = pool \ {h}
    /\ lent' = [lent EXCEPT ![t] = h]
    /\ has_broken(t, h)

\* the borrowed handle goes back to the pool when the call has returned
PoolTakeBack(t) ==
    /\ pc[t] \in {"is_valid_done", "has_broken_done"}
    /\ pool' = pool \cup {connection[t]}
    /\ connection' = [connection EXCEPT ![t] = None]
    /\ result' = [result EXCEPT ![t] = None]
    /\ calls' = [calls EXCEPT ![t] = <<>>]
    /\ pc' = [pc EXCEPT ![t] = "idle"]
    /\ validated' = IF pc[t] = "is_valid_done" /\ result[t].tag = "Ok"
                    THEN validated \cup {connection[t].conn.id}
                    ELSE validated
    /\ lent' = [lent EXCEPT ![t] = None]
    /\ UNCHANGED <<config, for_db, nextId, server, initial>>

\* ----------------------------------------------------- the server (environment)
\* the server revokes the session of a live connection (token expiry, ...)
Revoke(id) ==
    /\ id \in LiveIds \ revoked
    /\ revoked' = revoked \cup {id}
    /\ UNCHANGED <<config, pc, for_db, connection, result, calls, pool, validated,
                   nextId, ghost>>

Next ==
    \/ \E t \in Tasks : PoolConnect(t)
    \/ \E t \in Tasks : establish_basic_auth_db(t)
    \/ \E t \in Tasks : establish_jwt_db(t)
    \/ \E t \in Tasks : establish_without_auth_db(t)
    \/ \E t \in Tasks : PoolAdd(t)
    \/ \E t \in Tasks, h \in pool : PoolIsValid(t, h)
    \/ \E t \in Tasks, h \in pool : PoolHasBroken(t, h)
    \/ \E t \in Tasks : PoolTakeBack(t)
    \/ \E id \in 1..MaxConns : Revoke(id)

Spec == Init /\ [][Next]_vars

\* ------------------------------------------------------------- properties
TypeOK ==
    /\ url \in Urls
    /\ method \in AuthenticationMethod
    /\ database \in {None} \cup DbNames
    /\ nextId \in 1..(MaxConns + 1)
    /\ revoked \subseteq 1..MaxConns
    /\ validated \subseteq 1..MaxConns

ConnectDone(t) == pc[t] = "connect_done"
IsValidDone(t) == pc[t] = "is_valid_done"
HasBrokenDone(t) == pc[t] = "has_broken_done"

\* every handle that exists: pooled, lent to a call, or just returned by connect
AllHandles ==
    pool
    \cup {connection[t] : t \in {u \in Tasks : IsValidDone(u) \/ HasBrokenDone(u)}}
    \cup {result[t].val : t \in {u \in Tasks : ConnectDone(u) /\ result[u].tag = "Ok"}}

BadCredentials ==
    /\ method.kind \in {"BasicAuth", "JWTAuth"}
    /\ <<method.username, method.password>> \notin ServerUsers

ServerAnswered(c) == c.resp.tag = "Ok" \/ c.resp.err.kind # "TransportFailure"

\* C1: whenever connect() succeeds, under every strategy, the handle is Generic
\* iff the manager has no target database and Database (bound to that
\* database) iff it has one; all handles of one manager have the same variant.
C1_VariantMatchesConfig ==
    /\ \A t \in Tasks : ConnectDone(t) /\ result[t].tag = "Ok" =>
            /\ (result[t].val.variant = "Generic") <=> (database = None)
            /\ (result[t].val.variant = "Database") <=> (database # None)
            /\ result[t].val.db = database
            /\ result[t].val.conn.auth = method.kind
    /\ \A g, h \in AllHandles : g.variant = h.variant

C1_Witness ==
    \E t \in Tasks :
        /\ ConnectDone(t)
        /\ result[t].tag = "Ok"
        /\ result[t].val.variant = "Database"
        /\ pool # {}

\* C2: with a target database the server does not have, connect() never
\* returns a handle (no Generic fallback, no handle exists at all), the
\* server-scoped connection is dropped, and once the handshake succeeded and
\* the server answered the narrowing request of an accepted session, the
\* error returned is DatabaseNotAccessible.
C2_MissingDatabaseFails ==
    (database # None /\ database \notin ServerDatabases) =>
        /\ AllHandles = {}
        /\ \A t \in Tasks : ConnectDone(t) =>
            /\ result[t].tag = "Err"
            /\ connection[t] = None
            /\ (Len(calls[t]) = 2 /\ calls[t][2].healthy /\ ServerAnswered(calls[t][2]))
                    => result[t].err.kind = "DatabaseNotAccessible"

C2_Witness ==
    \E t \in Tasks :
        /\ ConnectDone(t)
        /\ Len(calls[t]) = 2
        /\ calls[t][1].resp.tag = "Ok"
        /\ result[t].tag = "Err"
        /\ result[t].err.kind = "DatabaseNotAccessible"

\* C3: is_valid() issues exactly one probe, accessible_databases on a Generic
\* handle's connection and accessible_collections on a Database handle's, and
\* returns Ok(()) exactly when the probe's response is Ok (an empty set
\* included) and an error exactly when the probe's response is an error.
C3_IsValidFollowsProbe ==
    \A t \in Tasks : IsValidDone(t) =>
        /\ Len(calls[t]) = 1
        /\ calls[t][1].op = (IF lent[t].variant = "Generic"
                             THEN "accessible_databases" ELSE "accessible_collections")
        /\ calls[t][1].id = lent[t].conn.id
        /\ calls[t][1].db = lent[t].db
        /\ (result[t].tag = "Ok") <=> (calls[t][1].resp.tag = "Ok")
        /\ result[t].tag = "Ok" => result[t].val = "unit"

C3_Witness ==
    \E t \in Tasks :
        /\ IsValidDone(t)
        /\ calls[t][1].resp.tag = "Ok"
        /\ calls[t][1].resp.val = {}
        /\ result[t].tag = "Ok"

\* C4: has_broken() returns false on every handle, whatever its state, and
\* makes no call into the client.
C4_HasBrokenFalse ==
    \A t \in Tasks : HasBrokenDone(t) =>
        /\ result[t] = FALSE
        /\ calls[t] = <<>>

C4_Witness ==
    \E t \in Tasks :
        /\ HasBrokenDone(t)
        /\ connection[t].conn.id \in revoked
        /\ result[t] = FALSE

\* C5: in connect() and is_valid(), the first error the client returns ends
\* the call (no later call, no repeat of the failed call) and is the value
\* returned, unchanged; a call that returns Ok saw no error.
C5_ErrorsVerbatim ==
    \A t \in Tasks : (ConnectDone(t) \/ IsValidDone(t)) =>
        /\ Len(calls[t]) >= 1
        /\ \A i \in 1..Len(calls[t]) :
                calls[t][i].resp.tag = "Err" =>
                    /\ i = Len(calls[t])
                    /\ result[t] = Err(calls[t][i].resp.err)
        /\ \A i, j \in 1..Len(calls[t]) : calls[t][i].op = calls[t][j].op => i = j
        /\ result[t].tag = "Err" => calls[t][Len(calls[t])].resp.tag = "Err"

C5_Witness ==
    \E t \in Tasks :
        /\ ConnectDone(t)
        /\ Len(calls[t]) = 2
        /\ calls[t][2].resp.tag = "Err"
        /\ result[t].tag = "Err"

\* C6 as stated: with credentials the server does not accept, under BasicAuth
\* or JWTAuth, connect() never returns a handle and, when the server answered,
\* fails with AuthenticationRejected.
C6_Original ==
    BadCredentials =>
        \A t \in Tasks : ConnectDone(t) =>
            /\ result[t].tag = "Err"
            /\ ServerAnswered(calls[t][Len(calls[t])])
                    => result[t].err.kind = "AuthenticationRejected"

\* C6 amended: with credentials the server does not accept, connect() never
\* returns a handle under JWTAuth, nor under BasicAuth when a target database
\* is configured (and fails with AuthenticationRejected when the server
\* answered); under BasicAuth with no target database the handshake does not
\* present the credentials, connect() can return a Generic handle, and every
\* is_valid() on such a handle fails.
C6_BadCredentialsAmended ==
    BadCredentials =>
        /\ \A t \in Tasks :
            (ConnectDone(t) /\ (method.kind = "JWTAuth" \/ database # None)) =>
                /\ result[t].tag = "Err"
                /\ ServerAnswered(calls[t][Len(calls[t])])
                        => result[t].err.kind = "AuthenticationRejected"
        /\ \A h \in AllHandles : h.variant = "Generic" /\ h.conn.auth = "BasicAuth"
        /\ \A t \in Tasks : IsValidDone(t) => result[t].tag = "Err"

C6_Witness ==
    /\ BadCredentials
    /\ method.kind = "BasicAuth"
    /\ \E t \in Tasks :
        /\ ConnectDone(t)
        /\ Len(calls[t]) = 2
        /\ result[t].tag = "Err"
        /\ result[t].err.kind = "AuthenticationRejected"

\* C7: every is_valid() makes its own probe, and its result is the session's
\* state when the probe is made: it fails when the server no longer honours
\* the session (revoked, or credentials not accepted) even if an earlier
\* is_valid() on the handle succeeded, and it succeeds when the server
\* honours the session and answers.
C7_ProbeIsFresh ==
    \A t \in Tasks : IsValidDone(t) =>
        /\ Len(calls[t]) = 1
        /\ ~calls[t][1].healthy => result[t].tag = "Err"
        /\ (calls[t][1].healthy /\ ServerAnswered(calls[t][1])) => result[t].tag = "Ok"

C7_Witness ==
    \E t \in Tasks :
        /\ IsValidDone(t)
        /\ lent[t].conn.id \in validated
        /\ lent[t].conn.id \in revoked
        /\ ~calls[t][1].healthy
        /\ result[t].tag = "Err"

\* C8: is_valid(), whether it succeeds or fails, leaves the handle as it was
\* lent (variant, bound database, connection and credentials), and a repeated
\* is_valid() on a handle that already passed one and is still honoured by
\* the answering server succeeds again.
C8_IsValidIdempotent ==
    \A t \in Tasks : IsValidDone(t) =>
        /\ connection[t] = lent[t]
        /\ Len(calls[t]) = 1
        /\ (lent[t].conn.id \in validated /\ calls[t][1].healthy
                /\ ServerAnswered(calls[t][1])) => result[t].tag = "Ok"

C8_Witness ==
    \E t \in Tasks :
        /\ IsValidDone(t)
        /\ lent[t].conn.id \in validated
        /\ lent[t].variant = "Database"
        /\ result[t].tag = "Ok"

\* what connect() returns when nothing else runs, from its configuration and
\* the responses rs its calls get
ConnectAlone(u, m, d, rs) ==
    IF Len(rs) = 0 THEN None
    ELSE IF rs[1].tag = "Err" THEN Err(rs[1].err)
    ELSE IF d = None THEN Ok(Generic(rs[1].val))
    ELSE IF Len(rs) < 2 THEN None
    ELSE IF rs[2].tag = "Err" THEN Err(rs[2].err)
    ELSE Ok(DatabaseOf(rs[2].val.conn, rs[2].val.name))

\* what is_valid() returns when nothing else runs, from the probe's response
IsValidAlone(rs) ==
    IF Len(rs) = 0 THEN None
    ELSE IF rs[1].tag = "Ok" THEN Ok("unit") ELSE Err(rs[1].err)

Responses(t) == [i \in 1..Len(calls[t]) |-> calls[t][i].resp]

\* C9: the manager's url, method and database are in every reachable state
\* what they were at construction, and under every interleaving of the tasks
\* each call returns what it returns when run alone on the same responses.
C9_ConfigImmutable ==
    /\ config = initial
    /\ \A t \in Tasks :
        /\ ConnectDone(t) =>
                result[t] = ConnectAlone(initial[1], initial[2], initial[3], Responses(t))
        /\ IsValidDone(t) => result[t] = IsValidAlone(Responses(t))
        /\ HasBrokenDone(t) => result[t] = FALSE

C9_Witness ==
    \E t, u \in Tasks :
        /\ t # u
        /\ ConnectDone(t)
        /\ Len(calls[t]) = 2
        /\ pc[u] \in {"establish_basic_auth_db", "establish_jwt_db",
                      "establish_without_auth_db", "is_valid_done"}

HandshakeOf(kind) ==
    CASE kind = "BasicAuth" -> "establish_basic_auth"
      [] kind = "JWTAuth" -> "establish_jwt"
      [] kind = "NoAuth" -> "establish_without_auth"

\* C10: a connect() makes exactly one handshake call, the one of the
\* configured method, with the configured url and credentials; it makes a
\* db call at most once, only with a target database configured and only
\* after the handshake succeeded, on the connection of that handshake; the
\* handle it returns wraps that connection, which no other handle holds.
C10_OneHandshakePerConnect ==
    \A t \in Tasks :
        (ConnectDone(t) \/ pc[t] \in {"establish_basic_auth_db", "establish_jwt_db",
                                      "establish_without_auth_db"}) =>
            /\ Len(calls[t]) \in 1..2
            /\ calls[t][1].op = HandshakeOf(method.kind)
            /\ calls[t][1].url = url
            /\ calls[t][1].username = method.username
            /\ calls[t][1].password = method.password
            /\ ~ConnectDone(t) => Len(calls[t]) = 1 /\ calls[t][1].resp.tag = "Ok"
            /\ Len(calls[t]) = 2 =>
                    /\ database # None
                    /\ calls[t][1].resp.tag = "Ok"
                    /\ calls[t][2].op = "db"
                    /\ calls[t][2].db = database
                    /\ calls[t][2].id = calls[t][1].resp.val.id
            /\ (ConnectDone(t) /\ Len(calls[t]) = 1) =>
                    (database = None \/ calls[t][1].resp.tag = "Err")
            /\ (ConnectDone(t) /\ result[t].tag = "Ok") =>
                    /\ result[t].val.conn = calls[t][1].resp.val
                    /\ \A h \in pool : h.conn.id # result[t].val.conn.id
                    /\ \A u \in Tasks \ {t} :
                        /\ (IsValidDone(u) \/ HasBrokenDone(u)) =>
                                connection[u].conn.id # result[t].val.conn.id
                        /\ (ConnectDone(u) /\ result[u].tag = "Ok") =>
                                result[u].val.conn.id # result[t].val.conn.id

C10_Witness ==
    \E t \in Tasks :
        /\ ConnectDone(t)
        /\ Len(calls[t]) = 2
        /\ result[t].tag = "Ok"
        /\ pool # {}

====
